---- MODULE Spec2Model ----
(***************************************************************************)
(* N-body simulation: the driver loop of main.py over the physics of       *)
(* method.py (force evaluation, velocity-Verlet, collision merging) and    *)
(* the body construction of database.py.                                   *)
(*                                                                         *)
(* Numbers.  The program computes in IEEE doubles.  Here a 3-vector is an  *)
(* exact rational vector n/d (integer numerators, one common denominator), *)
(* so every +, -, scalar * and scalar / of the program is computed exactly *)
(* as written.  A division by zero yields the single non-finite value NaN, *)
(* which absorbs all further arithmetic and makes every comparison false   *)
(* (inf and nan are not told apart).  The one irrational operation, the    *)
(* r_mag**3 of the force law, is rounded: each contribution to an          *)
(* acceleration is truncated toward zero to whole model units.             *)
(*                                                                         *)
(* Units.  length 3.844e5 km, time 36000 s (one dt), mass 7.348e22 kg.     *)
(* In these units dt = 1, collision_distance = 1e7 km = 26 and             *)
(* G = 6.67430e-20 km^3/kg/s^2 = 1/8937.                                   *)
(***************************************************************************)
EXTENDS Integers, Sequences, FiniteSets, TLC

VARIABLES bodies, pc, step, i, j, Data, file,
          bodies0, entry, captures, merges, phases

vars == <<bodies, pc, step, i, j, Data, file,
          bodies0, entry, captures, merges, phases>>

(* ----------------------------- bounds ---------------------------------- *)
MaxBodies == 3
MaxSteps == 11

(* ------------------------ program constants ---------------------------- *)
dt == 1
collision_distance == 26
Gden == 8937
SnapshotInterval == 10

(* ------------------------ exact vector algebra ------------------------- *)
Abs(x) == IF x < 0 THEN -x ELSE x

RECURSIVE GCD(_, _)
GCD(a, b) == IF b = 0 THEN a ELSE GCD(b, a % b)

NaN == [n |-> <<0, 0, 0>>, d |-> 0]

IsNaN(v) == v.d = 0

\* the rational vector n/d in lowest terms, d > 0; n/0 is NaN
Vec(n, d) ==
    IF d = 0 THEN NaN
    ELSE LET s == IF d < 0 THEN -1 ELSE 1
             g == GCD(GCD(Abs(n[1]), Abs(n[2])), GCD(Abs(n[3]), Abs(d)))
         IN  [n |-> <<(s * n[1]) \div g, (s * n[2]) \div g, (s * n[3]) \div g>>,
              d |-> (s * d) \div g]

Zero3 == [n |-> <<0, 0, 0>>, d |-> 1]

\* np.array([x, y, z], dtype=float)
Arr(x, y, z) == [n |-> <<x, y, z>>, d |-> 1]

VAdd(a, b) ==
    IF IsNaN(a) \/ IsNaN(b) THEN NaN
    ELSE Vec(<<a.n[1] * b.d + b.n[1] * a.d,
               a.n[2] * b.d + b.n[2] * a.d,
               a.n[3] * b.d + b.n[3] * a.d>>, a.d * b.d)

VSub(a, b) ==
    IF IsNaN(a) \/ IsNaN(b) THEN NaN
    ELSE Vec(<<a.n[1] * b.d - b.n[1] * a.d,
               a.n[2] * b.d - b.n[2] * a.d,
               a.n[3] * b.d - b.n[3] * a.d>>, a.d * b.d)

\* scalar * vector, integer scalar
VScale(k, v) ==
    IF IsNaN(v) THEN NaN ELSE Vec(<<k * v.n[1], k * v.n[2], k * v.n[3]>>, v.d)

\* vector / scalar, integer scalar; a zero scalar gives a non-finite result
VDiv(v, k) ==
    IF IsNaN(v) THEN NaN ELSE Vec(v.n, v.d * k)

\* the squared numerator length of v: |v|^2 = Norm2(v) / v.d^2
Norm2(v) == v.n[1] * v.n[1] + v.n[2] * v.n[2] + v.n[3] * v.n[3]

\* np.linalg.norm(v) < r for an integer r >= 0; false on a non-finite v
NormLess(v, r) == ~IsNaN(v) /\ Norm2(v) < r * r * v.d * v.d

\* np.linalg.norm(v) == 0; false on a non-finite v
NormIsZero(v) == ~IsNaN(v) /\ Norm2(v) = 0

RECURSIVE SqrtIter(_, _)
SqrtIter(n, x) ==
    LET y == (x + n \div x) \div 2 IN IF y < x THEN SqrtIter(n, y) ELSE x

\* floor of the square root
ISqrt(n) == IF n = 0 THEN 0 ELSE SqrtIter(n, n)

\* a / b truncated toward zero, b > 0
Trunc(a, b) == IF a < 0 THEN -((-a) \div b) ELSE a \div b

(* ----------------------------- bodies ----------------------------------- *)
\* a name is a string, kept as its sequence of characters
Plus == <<"+">>

\* database.Object(name, mass, position, velocity): no argument is validated
NewObject(name, mass, position, velocity) ==
    [name |-> name, mass |-> mass, position |-> position,
     velocity |-> velocity, acceleration |-> Zero3]

\* the bodies the initial-condition providers may hand over, in model units
BodyChoices ==
    { NewObject(<<"A">>, 9000,  Arr(0, 0, 0),  Arr(0, 0, 0)),
      NewObject(<<"B">>, 18000, Arr(20, 0, 0), Arr(0, 0, 0)),
      NewObject(<<"C">>, 9000,  Arr(30, 0, 0), Arr(0, 0, 0)),
      NewObject(<<"D">>, 9000,  Arr(0, 15, 0), Arr(0, 0, 0)),
      NewObject(<<"A">>, 9000,  Arr(0, 0, 60), Arr(0, 0, -4)),
      NewObject(<<"B">>, 18000, Arr(1, 0, 0),  Arr(0, 0, 0)),
      NewObject(<<"C">>, -9000, Arr(10, 0, 0), Arr(0, 0, 0)) }

\* the example scenario: 5.972e24 kg and 7.348e22 kg, 3.844e5 km apart, the
\* lighter body at orbital speed (about 1.02 km/s) across the line of centres
EarthMoon ==
    << NewObject(<<"E">>, 81, Arr(0, 0, 0), Arr(0, 0, 0)),
       NewObject(<<"M">>, 1,  Arr(1, 0, 0), Vec(<<0, 2, 0>>, 21)) >>

RECURSIVE SeqsUpTo(_, _)
SeqsUpTo(S, n) ==
    IF n = 0 THEN {<<>>}
    ELSE LET shorter == SeqsUpTo(S, n - 1)
         IN  shorter \cup {Append(s, x) : s \in shorter, x \in S}

InitialStores == SeqsUpTo(BodyChoices, MaxBodies) \cup {EarthMoon}

(* ------------------------- Force Evaluator ------------------------------ *)
\* G * obj_j.mass * r_vec / r_mag**3, each component truncated to whole units
Contribution(obj_i, obj_j) ==
    LET r_vec == VSub(obj_j.position, obj_i.position)
        n2    == Norm2(r_vec)
        r3    == n2 * ISqrt(n2)
        q2    == r_vec.d * r_vec.d
        c(k)  == Trunc(Trunc(obj_j.mass * r_vec.n[k] * q2, r3), Gden)
    IN  IF IsNaN(r_vec) THEN NaN ELSE Arr(c(1), c(2), c(3))

RECURSIVE TotalAcc(_, _, _, _)
TotalAcc(bs, ii, jj, total_acc) ==
    IF jj > Len(bs) THEN total_acc
    ELSE TotalAcc(bs, ii, jj + 1,
             IF ii = jj \/ NormIsZero(VSub(bs[jj].position, bs[ii].position))
             THEN total_acc
             ELSE VAdd(total_acc, Contribution(bs[ii], bs[jj])))

compute_gravitational_accelerations(bs) ==
    [ii \in 1..Len(bs) |->
        [bs[ii] EXCEPT !.acceleration = TotalAcc(bs, ii, 1, Zero3)]]

(* ----------------------------- Integrator ------------------------------- *)
verlet_integration(bs, h) ==
    LET old_accelerations == [k \in 1..Len(bs) |-> bs[k].acceleration]
        moved == [k \in 1..Len(bs) |->
                    [bs[k] EXCEPT !.position =
                        VAdd(@, VAdd(VScale(h, bs[k].velocity),
                                     VDiv(VScale(h * h, old_accelerations[k]), 2)))]]
        forced == compute_gravitational_accelerations(moved)
    IN  [k \in 1..Len(bs) |->
            [forced[k] EXCEPT !.velocity =
                VAdd(@, VDiv(VScale(h, VAdd(old_accelerations[k],
                                            forced[k].acceleration)), 2))]]

(* -------------------------- Collision Resolver -------------------------- *)
\* mutant: the comparison of line 128 reversed
CollidingFar(bs, ii, jj) ==
    ~NormLess(VSub(bs[ii + 1].position, bs[jj + 1].position), collision_distance)

\* indices ii, jj are the program's 0-based list indices
Colliding(bs, ii, jj) ==
    NormLess(VSub(bs[ii + 1].position, bs[jj + 1].position), collision_distance)

\* mutant: the plain midpoint instead of the mass-weighted centroid
MergedUnweighted(bi, bj) ==
    [bi EXCEPT
        !.position = VDiv(VAdd(bi.position, bj.position), 2),
        !.velocity = VDiv(VAdd(bi.velocity, bj.velocity), 2),
        !.mass = bi.mass + bj.mass,
        !.name = bi.name \o Plus \o bj.name]

\* mutant: the names are joined without the "+"
MergedNoPlus(bi, bj) ==
    LET M == bi.mass + bj.mass
    IN  [bi EXCEPT
            !.position = VDiv(VAdd(VScale(bi.mass, bi.position),
                                   VScale(bj.mass, bj.position)), M),
            !.velocity = VDiv(VAdd(VScale(bi.mass, bi.velocity),
                                   VScale(bj.mass, bj.velocity)), M),
            !.mass = M,
            !.name = bi.name \o bj.name]

\* mutant: the survivor keeps its own mass
MergedMassLost(bi, bj) ==
    LET M == bi.mass + bj.mass
    IN  [bi EXCEPT
            !.position = VDiv(VAdd(VScale(bi.mass, bi.position),
                                   VScale(bj.mass, bj.position)), M),
            !.velocity = VDiv(VAdd(VScale(bi.mass, bi.velocity),
                                   VScale(bj.mass, bj.velocity)), M),
            !.name = bi.name \o Plus \o bj.name]

Merged(bi, bj) ==
    LET m1 == bi.mass
        m2 == bj.mass
        M  == m1 + m2
    IN  [bi EXCEPT
            !.position = VDiv(VAdd(VScale(m1, bi.position), VScale(m2, bj.position)), M),
            !.velocity = VDiv(VAdd(VScale(m1, bi.velocity), VScale(m2, bj.velocity)), M),
            !.mass = M,
            !.name = bi.name \o Plus \o bj.name]

\* mutant: the absorbed body is left in the list
PopKeep(bs, jj) == bs

\* bodies.pop(jj): the later bodies shift down by one
Pop(bs, jj) ==
    [k \in 1..(Len(bs) - 1) |-> IF k < jj + 1 THEN bs[k] ELSE bs[k + 1]]

MergeInto(bs, ii, jj) ==
    Pop([bs EXCEPT ![ii + 1] = Merged(bs[ii + 1], bs[jj + 1])], jj)

(* ------------------------------ Snapshot -------------------------------- *)
NamesOf(bs) == {bs[k].name : k \in 1..Len(bs)}

\* snapshot[obj.name] = position, in list order: a later body overwrites an
\* earlier one of the same name
SnapshotOf(bs) ==
    [nm \in NamesOf(bs) |->
        LET last == CHOOSE k \in 1..Len(bs) :
                       /\ bs[k].name = nm
                       /\ \A l \in 1..Len(bs) : bs[l].name = nm => l <= k
        IN  bs[last].position]

\* mutant: the interval counted from one
SnapshotDueOneBased(s) == (s + 1) % SnapshotInterval = 0

SnapshotDue(s) == s % SnapshotInterval = 0

(* ------------------------------- driver --------------------------------- *)
\* main.py up to line 45: the provider has built the store.  The run length
\* steps = 876 * num_years is an input the loop only compares step with: it
\* is any number up to MaxSteps, and is known as step once range(steps) is
\* exhausted (LoopExit)
Init ==
    /\ bodies \in InitialStores
    /\ bodies0 = bodies
    /\ pc = "prime"
    /\ step = 0
    /\ i = 0
    /\ j = 0
    /\ Data = <<>>
    /\ file = <<>>
    /\ entry = <<>>
    /\ captures = <<>>
    /\ merges = 0
    /\ phases = <<>>

\* main.py:49
Prime ==
    /\ pc = "prime"
    /\ bodies' = compute_gravitational_accelerations(bodies)
    /\ phases' = Append(phases, "prime")
    /\ pc' = "loop"
    /\ UNCHANGED <<step, i, j, Data, file, bodies0, entry, captures, merges>>

\* main.py:61-63: the next value of range(steps), then the Integrator
Integrate ==
    /\ pc = "loop"
    /\ step < MaxSteps
    /\ bodies' = verlet_integration(bodies, dt)
    /\ phases' = Append(phases, "integrate")
    /\ pc' = "resolve"
    /\ UNCHANGED <<step, i, j, Data, file, bodies0, entry, captures, merges>>

\* main.py:61, 78: range(steps) is exhausted
LoopExit ==
    /\ pc = "loop"
    /\ pc' = "done"
    /\ UNCHANGED <<bodies, step, i, j, Data, file, bodies0, entry,
                   captures, merges, phases>>

\* main.py:66 and method.py:123
ResolveBegin ==
    /\ pc = "resolve"
    /\ entry' = bodies
    /\ i' = 0
    /\ phases' = Append(phases, "resolve")
    /\ pc' = "outer"
    /\ UNCHANGED <<bodies, step, j, Data, file, bodies0, captures,
                   merges>>

\* method.py:124-125
OuterEnter ==
    /\ pc = "outer"
    /\ i < Len(bodies)
    /\ j' = i + 1
    /\ pc' = "inner"
    /\ UNCHANGED <<bodies, step, i, Data, file, bodies0, entry, captures,
                   merges, phases>>

\* method.py:124: the outer loop ends and the resolver returns
OuterExit ==
    /\ pc = "outer"
    /\ i >= Len(bodies)
    /\ i' = 0
    /\ j' = 0
    /\ pc' = "snapshot"
    /\ UNCHANGED <<bodies, step, Data, file, bodies0, entry, captures,
                   merges, phases>>

\* mutant: j is advanced after a merge
InnerMergeAdvancing ==
    /\ pc = "inner"
    /\ j < Len(bodies)
    /\ Colliding(bodies, i, j)
    /\ bodies' = MergeInto(bodies, i, j)
    /\ merges' = merges + 1
    /\ j' = j + 1
    /\ UNCHANGED <<pc, step, i, Data, file, bodies0, entry, captures, phases>>

\* method.py:126-148: the pair collides; j is not advanced
InnerMerge ==
    /\ pc = "inner"
    /\ j < Len(bodies)
    /\ Colliding(bodies, i, j)
    /\ bodies' = MergeInto(bodies, i, j)
    /\ merges' = merges + 1
    /\ UNCHANGED <<pc, step, i, j, Data, file, bodies0, entry, captures, phases>>

\* method.py:126-128, 151-152
InnerAdvance ==
    /\ pc = "inner"
    /\ j < Len(bodies)
    /\ ~Colliding(bodies, i, j)
    /\ j' = j + 1
    /\ UNCHANGED <<bodies, pc, step, i, Data, file, bodies0, entry,
                   captures, merges, phases>>

\* method.py:126, 153
InnerExit ==
    /\ pc = "inner"
    /\ j >= Len(bodies)
    /\ i' = i + 1
    /\ pc' = "outer"
    /\ UNCHANGED <<bodies, step, j, Data, file, bodies0, entry, captures,
                   merges, phases>>

\* main.py:69-73
SnapshotTake ==
    /\ pc = "snapshot"
    /\ SnapshotDue(step)
    /\ Data' = Append(Data, SnapshotOf(bodies))
    /\ captures' = Append(captures, [len |-> Len(bodies), merges |-> merges])
    /\ phases' = Append(phases, "snapshot")
    /\ pc' = "save"
    /\ UNCHANGED <<bodies, step, i, j, file, bodies0, entry, merges>>

\* main.py:69
SnapshotSkip ==
    /\ pc = "snapshot"
    /\ ~SnapshotDue(step)
    /\ pc' = "save"
    /\ UNCHANGED <<bodies, step, i, j, Data, file, bodies0, entry,
                   captures, merges, phases>>

\* main.py:76, then back to the loop head
Save ==
    /\ pc = "save"
    /\ file' = Data
    /\ step' = step + 1
    /\ phases' = <<>>
    /\ pc' = "loop"
    /\ UNCHANGED <<bodies, i, j, Data, bodies0, entry, captures, merges>>

Next ==
    \/ Prime
    \/ Integrate
    \/ LoopExit
    \/ ResolveBegin
    \/ OuterEnter
    \/ OuterExit
    \/ InnerMerge
    \/ InnerAdvance
    \/ InnerExit
    \/ SnapshotTake
    \/ SnapshotSkip
    \/ Save

Spec == Init /\ [][Next]_vars

(* ------------------------------ properties ------------------------------ *)
RECURSIVE SumMass(_)
SumMass(bs) == IF bs = <<>> THEN 0 ELSE bs[1].mass + SumMass(Tail(bs))

\* (m_a * x_a + m_b * x_b) / (m_a + m_b)
WeightedMean(ma, xa, mb, xb) == VDiv(VAdd(VScale(ma, xa), VScale(mb, xb)), ma + mb)

\* the resolver has just returned from a pass entered with the store `entry`
PassDone == pc = "snapshot"

\* C1: a pass entered with exactly two bodies closer than collision_distance
\* leaves one body: mass the sum, position and velocity the mass-weighted
\* means, name name_0 + "+" + name_1, all from the pre-merge values.
C1_MergeCorrect ==
    (PassDone /\ Len(entry) = 2 /\ Colliding(entry, 0, 1)) =>
        /\ Len(bodies) = 1
        /\ bodies[1].mass = entry[1].mass + entry[2].mass
        /\ bodies[1].position =
               WeightedMean(entry[1].mass, entry[1].position,
                            entry[2].mass, entry[2].position)
        /\ bodies[1].velocity =
               WeightedMean(entry[1].mass, entry[1].velocity,
                            entry[2].mass, entry[2].velocity)
        /\ bodies[1].name = entry[1].name \o <<"+">> \o entry[2].name

C1_Witness ==
    /\ PassDone /\ Len(entry) = 2 /\ Colliding(entry, 0, 1)
    /\ Len(bodies) = 1
    /\ entry[1].mass > 0 /\ entry[2].mass > 0 /\ entry[1].mass # entry[2].mass
    /\ bodies[1].position # entry[1].position
    /\ bodies[1].position # entry[2].position
    /\ bodies[1].velocity # entry[1].velocity

AllPositive(bs) == \A k \in 1..Len(bs) : bs[k].mass > 0

MutuallyColliding3(bs) ==
    /\ Len(bs) = 3
    /\ Colliding(bs, 0, 1) /\ Colliding(bs, 0, 2) /\ Colliding(bs, 1, 2)

\* C2: a pass entered with three bodies of positive mass, pairwise closer
\* than collision_distance, ends with one body carrying the three masses;
\* after the first merge the survivor at index 0 is still within
\* collision_distance of the body that shifted down into slot 1.
C2_ChainMerge ==
    (MutuallyColliding3(entry) /\ AllPositive(entry)) =>
        /\ (pc = "inner" /\ Len(bodies) = 2) => (i = 0 /\ j = 1 /\ Colliding(bodies, 0, 1))
        /\ PassDone =>
              /\ Len(bodies) = 1
              /\ bodies[1].mass = entry[1].mass + entry[2].mass + entry[3].mass

C2_Witness ==
    /\ PassDone /\ MutuallyColliding3(entry) /\ AllPositive(entry)
    /\ Len(bodies) = 1
    /\ entry[1].position # entry[2].position
    /\ entry[1].position # entry[3].position
    /\ entry[2].position # entry[3].position
    /\ entry[2].position.n[2] # 0 \/ entry[3].position.n[2] # 0

Keys(snapshot) == DOMAIN snapshot

\* snapshot a was captured before some merge and snapshot b after it
MergeBetween(a, b) ==
    /\ a \in 1..Len(Data) /\ b \in 1..Len(Data) /\ a < b
    /\ captures[a].merges < captures[b].merges

\* C3 as stated: across a merge the later key set is a strict subset of the
\* earlier one, and a name absent from a snapshot never appears later.
C3_KeysShrink ==
    \A a, b \in 1..Len(Data) :
        /\ MergeBetween(a, b) =>
              (Keys(Data[b]) \subseteq Keys(Data[a]) /\ Keys(Data[b]) # Keys(Data[a]))
        /\ a < b => Keys(Data[b]) \subseteq Keys(Data[a])

\* nm is a name of S, or names of S joined by "+"
RECURSIVE IsJoinOf(_, _)
IsJoinOf(nm, S) ==
    \/ nm \in S
    \/ \E k \in 2..(Len(nm) - 1) :
          /\ nm[k] = "+"
          /\ IsJoinOf(SubSeq(nm, 1, k - 1), S)
          /\ IsJoinOf(SubSeq(nm, k + 1, Len(nm)), S)

\* C3 amended: across a merge the later snapshot is captured from a store
\* shorter by the number of merges in between, and each of its keys is a key
\* of the earlier snapshot or keys of the earlier snapshot joined by "+".
C3_KeysJoin ==
    \A a, b \in 1..Len(Data) :
        MergeBetween(a, b) =>
            /\ captures[a].len - captures[b].len = captures[b].merges - captures[a].merges
            /\ \A nm \in Keys(Data[b]) : IsJoinOf(nm, Keys(Data[a]))

C3_Witness ==
    \E a, b \in 1..Len(Data) :
        /\ MergeBetween(a, b)
        /\ \E nm \in Keys(Data[b]) : nm \notin Keys(Data[a])
        /\ \E nm \in Keys(Data[a]) : nm \notin Keys(Data[b])

\* the separation of the two bodies is within [3.6e5, 4.1e5] km, that is
\* within [900/961, 1025/961] length units
SeparationInRange(bs) ==
    LET r == VSub(bs[1].position, bs[2].position)
    IN  /\ ~IsNaN(r)
        /\ 810000 * r.d * r.d <= 923521 * Norm2(r)
        /\ 923521 * Norm2(r) <= 1050625 * r.d * r.d

\* C4 as stated: in the example scenario no merge occurs: the store holds
\* two bodies after every step and their separation stays in range.
C4_ExampleNoMerge ==
    bodies0 = EarthMoon =>
        /\ Len(bodies) = 2
        /\ pc \in {"loop", "done"} => SeparationInRange(bodies)

\* C4 amended: the pair starts 3.844e5 km apart, below the threshold 1e7 km,
\* and is merged by the first step's resolution pass; from then on the store
\* holds the one merged body.
C4_ExampleMerges ==
    (bodies0 = EarthMoon /\ (step > 0 \/ pc \in {"snapshot", "save"})) =>
        /\ Len(bodies) = 1
        /\ merges = 1
        /\ bodies[1].mass = EarthMoon[1].mass + EarthMoon[2].mass
        /\ bodies[1].name = EarthMoon[1].name \o <<"+">> \o EarthMoon[2].name

C4_Witness ==
    /\ bodies0 = EarthMoon /\ pc = "done" /\ step > SnapshotInterval
    /\ Len(bodies) = 1

\* C5: each captured snapshot has one key per live body (stated for runs
\* whose initial bodies all have positive mass).
C5_OneKeyPerBody ==
    (pc = "save" /\ SnapshotDue(step) /\ AllPositive(bodies0)) =>
        Cardinality(Keys(Data[Len(Data)])) = Len(bodies)

\* C6: no step adds a body: the Integrator and every other driver step keep
\* the length, a merge lowers it by exactly one.
C6_LengthNeverGrows ==
    [][ /\ Len(bodies') <= Len(bodies)
        /\ pc = "loop" => Len(bodies') = Len(bodies)
        /\ merges' = merges + 1 => Len(bodies') = Len(bodies) - 1
        /\ merges' = merges => Len(bodies') = Len(bodies) ]_vars

C6_Witness ==
    /\ pc = "done" /\ merges = 2 /\ Len(bodies0) = 3 /\ Len(bodies) = 1

\* the masses of bs2 are those of bs1, except that body ii has absorbed the
\* mass of body jj, which is gone
AbsorbedMass(bs1, bs2, ii, jj) ==
    /\ Len(bs2) = Len(bs1) - 1
    /\ \A k \in 1..Len(bs2) :
          bs2[k].mass = IF k = ii + 1 THEN bs1[ii + 1].mass + bs1[jj + 1].mass
                        ELSE IF k <= jj THEN bs1[k].mass ELSE bs1[k + 1].mass

SameMasses(bs1, bs2) ==
    /\ Len(bs2) = Len(bs1)
    /\ \A k \in 1..Len(bs1) : bs2[k].mass = bs1[k].mass

\* C7: the total mass of the store stays that of the initial body list, and a
\* body's mass changes only by absorbing another body's mass in a merge.
C7_MassConserved ==
    /\ [](SumMass(bodies) = SumMass(bodies0))
    /\ [][ IF merges' = merges THEN SameMasses(bodies, bodies')
           ELSE AbsorbedMass(bodies, bodies', i, j) ]_vars

C7_Witness ==
    /\ merges = 2 /\ step > 0 /\ pc = "loop"
    /\ SumMass(bodies0) > 0
    /\ \E k \in 1..Len(bodies) : bodies[k].mass = SumMass(bodies0)

\* C8: accelerations are primed once before the first step; each iteration
\* runs Integrator, Resolver, then a snapshot exactly when
\* step mod SnapshotInterval = 0; a snapshot shows the store as the Resolver
\* left it; none is taken before the first integration; a run of n
\* iterations ends with ceil(n / SnapshotInterval) snapshots.
C8_DriverOrder ==
    /\ pc = "save" =>
          phases = (IF step = 0 THEN <<"prime">> ELSE <<>>)
                   \o <<"integrate", "resolve">>
                   \o (IF step % SnapshotInterval = 0 THEN <<"snapshot">> ELSE <<>>)
    /\ (pc = "save" /\ step % SnapshotInterval = 0) =>
          /\ Len(Data) = step \div SnapshotInterval + 1
          /\ Data[Len(Data)] = SnapshotOf(bodies)
    /\ (pc = "save" /\ step % SnapshotInterval # 0) =>
          Len(Data) = step \div SnapshotInterval + 1
    /\ (step = 0 /\ pc # "save") => Data = <<>>
    /\ pc \in {"loop", "done"} =>
          /\ Len(Data) = (step + SnapshotInterval - 1) \div SnapshotInterval
          /\ file = IF step = 0 THEN <<>> ELSE Data
    /\ pc = "loop" => phases = IF step = 0 THEN <<"prime">> ELSE <<>>

C8_Witness ==
    /\ pc = "done" /\ step = SnapshotInterval + 1 /\ Len(Data) = 2
    /\ merges > 0

\* C9: no body of mass <= 0 is ever in the store.
C9_MassesPositive == AllPositive(bodies)

\* every body's acceleration field is what the Force Evaluator computes on
\* the store as it is now
AccelerationsCurrent ==
    \A k \in 1..Len(bodies) :
        bodies[k].acceleration =
            compute_gravitational_accelerations(bodies)[k].acceleration

\* C10: whenever the Integrator runs (its first statement copies every
\* body's acceleration as a_old), the accelerations it reads are those of
\* the Force Evaluator on the current, post-merge store (stated for runs
\* whose initial bodies all have positive mass).
C10_NoStaleRead ==
    [][(Integrate /\ AllPositive(bodies0)) => AccelerationsCurrent]_vars

\* C11: when the resolver returns, no two bodies left in the store are
\* closer than collision_distance (stated for runs whose initial bodies all
\* have positive mass).
C11_NoPairLeftColliding ==
    (PassDone /\ AllPositive(bodies0)) =>
        \A a, b \in 0..(Len(bodies) - 1) : a < b => ~Colliding(bodies, a, b)

====
